---- MODULE Spec2Model ----
(***************************************************************************)
(* A model of library/std/src/sys/switch/net.rs: the Socket handle, its    *)
(* bounded connect (Socket::connect_timeout), the timeout option accessors *)
(* (Socket::set_timeout / Socket::timeout), deferred-error retrieval       *)
(* (Socket::take_error) and the receive/accept wrappers.                   *)
(*                                                                         *)
(* 64-bit quantities (Duration seconds, time_t, the u64 millisecond count) *)
(* are kept at their full width as four 16-bit limbs, most significant     *)
(* first, because TLC's integers are 32 bits wide.                         *)
(***************************************************************************)
EXTENDS Integers, Sequences, FiniteSets, TLC

VARIABLES
    pc,          \* position inside connect_timeout: idle, connect, nb_off, check, poll, done
    op,          \* the operation called last
    arg,         \* its argument (connect_timeout: the timeout Duration)
    ret,         \* its io::Result (Pending while connect_timeout is running)
    calls,       \* the system calls it has issued so far, in order, with their answers
    nonblocking, \* descriptor mode, as set by fcntl
    so_error,    \* kernel: the socket's pending error (SO_ERROR), "" when none
    now,         \* the monotonic clock (Instant::now), as a Duration since boot
    start,       \* connect_timeout: `start`
    r,           \* connect_timeout: `r`, the answer of libc::connect
    poll_ms,     \* connect_timeout: the c_int handed to the next libc::poll
    tv,          \* kernel: the stored SO_RCVTIMEO / SO_SNDTIMEO timeval
    lastOk,      \* history: the argument of the latest set_timeout that returned Ok
    script,      \* kernel: the answers the next accept/recv/recvfrom calls will give
    rxq          \* kernel: bytes queued for receive

vars == <<pc, op, arg, ret, calls, nonblocking, so_error, now, start, r, poll_ms,
          tv, lastOk, script, rxq>>

---------------------------------------------------------------------------
(* Bounds of the model *)

\* libc::poll calls one connect_timeout may make in the model
MaxPolls == 4

\* the longest buffer read/peek/recv_from/peek_from are called with
MaxBuf == 2

\* bytes the kernel may have queued for receive
MaxBytes == 2

\* answers the kernel has ready for the next accept/recv/recvfrom calls
MaxScript == 2

---------------------------------------------------------------------------
(* 64-bit integers as limbs *)

Base == 256 * 256

U64Of(n) == <<0, 0, n \div Base, n % Base>>

U64Zero == <<0, 0, 0, 0>>

U64Max == <<Base - 1, Base - 1, Base - 1, Base - 1>>

\* a < b
U64Lt(a, b) == \E i \in 1..4 : a[i] < b[i] /\ \A j \in 1..(i - 1) : a[j] = b[j]

U64Le(a, b) == a = b \/ U64Lt(a, b)

\* a + b with the carry out of bit 63
AddLimbs(a, b) ==
    LET s4 == a[4] + b[4]
        s3 == a[3] + b[3] + (s4 \div Base)
        s2 == a[2] + b[2] + (s3 \div Base)
        s1 == a[1] + b[1] + (s2 \div Base)
    IN  [val |-> <<s1 % Base, s2 % Base, s3 % Base, s4 % Base>>, carry |-> s1 \div Base]

\* a - b for a >= b
SubLimbs(a, b) ==
    LET d4 == a[4] - b[4]
        d3 == a[3] - b[3] - (IF d4 < 0 THEN 1 ELSE 0)
        d2 == a[2] - b[2] - (IF d3 < 0 THEN 1 ELSE 0)
        d1 == a[1] - b[1] - (IF d2 < 0 THEN 1 ELSE 0)
    IN  <<(d1 + Base) % Base, (d2 + Base) % Base, (d3 + Base) % Base, (d4 + Base) % Base>>

\* a * k for a small k, with the carry out of bit 63
MulLimbs(a, k) ==
    LET p4 == a[4] * k
        p3 == a[3] * k + (p4 \div Base)
        p2 == a[2] * k + (p3 \div Base)
        p1 == a[1] * k + (p2 \div Base)
    IN  [val |-> <<p1 % Base, p2 % Base, p3 % Base, p4 % Base>>, carry |-> p1 \div Base]

\* u64::saturating_mul
saturating_mul(a, k) ==
    LET p == MulLimbs(a, k) IN IF p.carry > 0 THEN U64Max ELSE p.val

\* u64::saturating_add
saturating_add(a, b) ==
    LET s == AddLimbs(a, b) IN IF s.carry > 0 THEN U64Max ELSE s.val

\* c_int::MAX
CIntMax == 2147483647

\* cmp::min(v, c_int::MAX as u64) as c_int
min_as_c_int(v) ==
    IF U64Lt(U64Of(CIntMax), v) THEN CIntMax ELSE v[3] * Base + v[4]

---------------------------------------------------------------------------
(* Duration and Instant *)

NanosPerSec == 1000 * 1000 * 1000

Dur(s, n) == [secs |-> U64Of(s), nanos |-> n]

DurZero == Dur(0, 0)

\* Duration::MAX
DurationMax == [secs |-> U64Max, nanos |-> NanosPerSec - 1]

\* a < b
DurLt(a, b) == U64Lt(a.secs, b.secs) \/ (a.secs = b.secs /\ a.nanos < b.nanos)

DurLe(a, b) == a = b \/ DurLt(a, b)

\* a - b for a >= b
DurSub(a, b) ==
    IF a.nanos >= b.nanos
    THEN [secs |-> SubLimbs(a.secs, b.secs), nanos |-> a.nanos - b.nanos]
    ELSE [secs |-> SubLimbs(SubLimbs(a.secs, b.secs), U64Of(1)),
          nanos |-> a.nanos + NanosPerSec - b.nanos]

\* a + b
DurAdd(a, b) ==
    LET n == a.nanos + b.nanos
    IN  [secs |-> AddLimbs(AddLimbs(a.secs, b.secs).val, U64Of(n \div NanosPerSec)).val,
         nanos |-> n % NanosPerSec]

\* the length of a poll wait of ms milliseconds
MsDur(ms) == [secs |-> U64Of(ms \div 1000), nanos |-> (ms % 1000) * 1000000]

\* Instant::elapsed
Elapsed == DurSub(now, start)

---------------------------------------------------------------------------
(* io::Result and io::Error *)

Pending == [tag |-> "Pending"]

Ok(v) == [tag |-> "Ok", val |-> v]

None == <<>>

Some(v) == <<v>>

\* sys::decode_error_kind
decode_error_kind(errno) ==
    CASE errno = "EINTR" -> "Interrupted"
      [] errno = "ECONNREFUSED" -> "ConnectionRefused"
      [] errno = "ETIMEDOUT" -> "TimedOut"
      [] errno = "EAGAIN" -> "WouldBlock"
      [] OTHER -> "Other"

\* io::Error::last_os_error / io::Error::from_raw_os_error
OsError(errno) == [tag |-> "Err", kind |-> decode_error_kind(errno), os |-> errno]

\* io::Error::new(kind, msg)
NewError(kind) == [tag |-> "Err", kind |-> kind, os |-> ""]

\* one system call with its answer
Call(sys, a, rc, errno, ev) ==
    [sys |-> sys, arg |-> a, rc |-> rc, errno |-> errno, revents |-> ev, at |-> now]

Polls(cs) == SelectSeq(cs, LAMBDA c : c.sys = "poll")

---------------------------------------------------------------------------
(* Socket::set_nonblocking, Socket::take_error *)

\* the errno a failing fcntl / getsockopt / setsockopt gives
BadFd == "EBADF"

\* set_nonblocking(flag): fcntl on the descriptor; ok is the kernel's answer
fcntl_call(flag, ok) ==
    Call("fcntl", IF flag THEN 1 ELSE 0, IF ok THEN 0 ELSE -1, IF ok THEN "" ELSE BadFd, "")

\* the descriptor's mode after set_nonblocking(flag)
fcntl_mode(flag, ok) == IF ok THEN flag ELSE nonblocking

\* Socket::set_nonblocking called by the user, before any connect
SetNonblocking(flag, ok) ==
    /\ pc = "idle"
    /\ op' = "set_nonblocking"
    /\ calls' = <<fcntl_call(flag, ok)>>
    /\ nonblocking' = fcntl_mode(flag, ok)
    /\ ret' = IF ok THEN Ok("unit") ELSE OsError(BadFd)
    /\ UNCHANGED <<pc, arg, so_error, now, start, r, poll_ms, tv, lastOk, script, rxq>>

\* Socket::take_error: getsockopt(SO_ERROR) reads the pending error and clears it
take_error(pending, ok) ==
    IF ~ok THEN [ret |-> OsError(BadFd), so_error |-> pending]
    ELSE IF pending = "" THEN [ret |-> Ok(None), so_error |-> ""]
    ELSE [ret |-> Ok(Some(OsError(pending))), so_error |-> ""]

TakeError(ok) ==
    /\ pc \in {"idle", "done"}
    /\ op' = "take_error"
    /\ calls' = <<Call("getsockopt", 0, IF ok THEN 0 ELSE -1, IF ok THEN "" ELSE BadFd, "")>>
    /\ ret' = take_error(so_error, ok).ret
    /\ so_error' = take_error(so_error, ok).so_error
    /\ UNCHANGED <<pc, arg, nonblocking, now, start, r, poll_ms, tv, lastOk, script, rxq>>

---------------------------------------------------------------------------
(* Socket::connect_timeout *)

\* timeout.as_secs() == 0 && timeout.subsec_nanos() == 0
is_zero_duration(d) == d.secs = U64Zero /\ d.nanos = 0

\* faulty variant: every connect error is taken for "in progress"
connect_any_error_in_progress(res) == res # "OK"

\* Err(ref e) if e.raw_os_error() == Some(libc::EINPROGRESS)
connect_in_progress(res) == res = "EINPROGRESS"

\* faulty variant: the deadline is compared in whole seconds
deadline_reached_secs(elapsed, timeout) == ~U64Lt(elapsed.secs, timeout.secs)

\* elapsed >= timeout
deadline_reached(elapsed, timeout) == ~DurLt(elapsed, timeout)

\* the remaining time in whole milliseconds, as a u64
remaining_ms(rem) ==
    saturating_add(saturating_mul(rem.secs, 1000), U64Of(rem.nanos \div 1000000))

\* faulty variant: a remainder below one millisecond is not raised to 1
poll_timeout_no_bump(timeout, elapsed) ==
    CHOOSE t \in { min_as_c_int(ms) :
                     ms \in { remaining_ms(rem) : rem \in { DurSub(timeout, elapsed) } } } : TRUE

\* the c_int handed to poll: the remaining time in whole milliseconds,
\* raised to 1 when it is 0 and clamped to c_int::MAX
poll_timeout(timeout, elapsed) ==
    CHOOSE t \in { min_as_c_int(IF ms = U64Zero THEN U64Of(1) ELSE ms) :
                     ms \in { remaining_ms(rem) : rem \in { DurSub(timeout, elapsed) } } } : TRUE

\* faulty variant: the descriptor is left non-blocking after libc::connect
restore_flag_nonblocking == TRUE

\* the mode flag of the set_nonblocking call that follows libc::connect
restore_flag == FALSE

\* connect_timeout begins: self.set_nonblocking(true)?
ConnectBegin(timeout, ok) ==
    /\ pc = "idle"
    /\ op' = "connect_timeout"
    /\ arg' = timeout
    /\ calls' = <<fcntl_call(TRUE, ok)>>
    /\ nonblocking' = fcntl_mode(TRUE, ok)
    /\ IF ok THEN pc' = "connect" /\ ret' = Pending
             ELSE pc' = "done" /\ ret' = OsError(BadFd)
    /\ UNCHANGED <<so_error, now, start, r, poll_ms, tv, lastOk, script, rxq>>

\* let r = cvt(libc::connect(..)); res is the kernel's answer
ConnectCall(res) ==
    /\ pc = "connect"
    /\ r' = res
    /\ calls' = Append(calls, Call("connect", 0, IF res = "OK" THEN 0 ELSE -1,
                                   IF res = "OK" THEN "" ELSE res, ""))
    /\ pc' = "nb_off"
    /\ UNCHANGED <<op, arg, ret, nonblocking, so_error, now, start, poll_ms, tv, lastOk,
                   script, rxq>>

\* what follows the second set_nonblocking: match r, the zero check, start
after_connect(res, timeout) ==
    IF res = "OK" THEN [pc |-> "done", ret |-> Ok("unit")]
    ELSE IF ~connect_in_progress(res) THEN [pc |-> "done", ret |-> OsError(res)]
    ELSE IF is_zero_duration(timeout) THEN [pc |-> "done", ret |-> NewError("InvalidInput")]
    ELSE [pc |-> "check", ret |-> Pending]

\* self.set_nonblocking(false)?; match r { .. }; the zero check; start = Instant::now()
ConnectRestore(ok) ==
    /\ pc = "nb_off"
    /\ calls' = Append(calls, fcntl_call(restore_flag, ok))
    /\ nonblocking' = fcntl_mode(restore_flag, ok)
    /\ IF ok THEN /\ pc' = after_connect(r, arg).pc
                  /\ ret' = after_connect(r, arg).ret
             ELSE /\ pc' = "done"
                  /\ ret' = OsError(BadFd)
    /\ start' = IF ok /\ after_connect(r, arg).pc = "check" THEN now ELSE start
    /\ UNCHANGED <<op, arg, so_error, now, r, poll_ms, tv, lastOk, script, rxq>>

\* the head of the loop: the deadline check and the poll timeout
DeadlineCheck ==
    /\ pc = "check"
    /\ IF deadline_reached(Elapsed, arg)
       THEN /\ pc' = "done"
            /\ ret' = NewError("TimedOut")
            /\ UNCHANGED poll_ms
       ELSE /\ pc' = "poll"
            /\ poll_ms' = poll_timeout(arg, Elapsed)
            /\ UNCHANGED ret
    /\ UNCHANGED <<op, arg, calls, nonblocking, so_error, now, start, r, tv, lastOk,
                   script, rxq>>

\* faulty variant: an interrupted poll is a hard failure too
poll_error_always_fatal(errno) == TRUE

\* err.kind() != io::ErrorKind::Interrupted
poll_error_is_fatal(errno) == decode_error_kind(errno) # "Interrupted"

\* faulty variant: POLLHUP is looked for and the pending error taken and returned
poll_ready_checks_hup(revents, pending) ==
    IF revents = "POLLOUT|POLLERR|POLLHUP"
    THEN [ret |-> IF pending = "" THEN NewError("Other") ELSE OsError(pending),
          so_error |-> "",
          calls |-> <<Call("getsockopt", 0, 0, "", "")>>]
    ELSE [ret |-> Ok("unit"), so_error |-> pending, calls |-> <<>>]

\* the arm of `match libc::poll(..)` for a positive result: revents is not
\* inspected and the pending error is not read
poll_ready(revents, pending) == [ret |-> Ok("unit"), so_error |-> pending, calls |-> <<>>]

\* match unsafe { libc::poll(&mut pollfd, 1, timeout) } { -1 => .., 0 => {}, _ => .. }
poll_match(rc, errno, revents, pending) ==
    IF rc = -1
    THEN IF poll_error_is_fatal(errno)
         THEN [pc |-> "done", ret |-> OsError(errno), so_error |-> pending, calls |-> <<>>]
         ELSE [pc |-> "check", ret |-> Pending, so_error |-> pending, calls |-> <<>>]
    ELSE IF rc = 0
    THEN [pc |-> "check", ret |-> Pending, so_error |-> pending, calls |-> <<>>]
    ELSE [pc |-> "done"] @@ poll_ready(revents, pending)

\* what libc::poll may answer
PollOutcomes ==
    { [rc |-> 0, errno |-> "", revents |-> ""],
      [rc |-> -1, errno |-> "EINTR", revents |-> ""],
      [rc |-> -1, errno |-> "ENOMEM", revents |-> ""],
      [rc |-> 1, errno |-> "", revents |-> "POLLOUT"],
      [rc |-> 1, errno |-> "", revents |-> "POLLOUT|POLLERR|POLLHUP"] }

\* how long a poll that is interrupted, fails or finds the socket ready may have waited
PollWaits == { Dur(0, 0), Dur(0, 400000), Dur(0, 1000000) }

\* libc::poll(&mut pollfd, 1, timeout) answers out after waiting d, and the
\* match on its result; a refused connection is reported as
\* POLLOUT|POLLERR|POLLHUP and leaves ECONNREFUSED pending
PollAnswer(out, d) ==
    /\ now' = DurAdd(now, d)
    /\ LET pending == IF out.revents = "POLLOUT|POLLERR|POLLHUP" THEN "ECONNREFUSED"
                      ELSE so_error
           res == poll_match(out.rc, out.errno, out.revents, pending)
       IN  /\ pc' = res.pc
           /\ ret' = res.ret
           /\ so_error' = res.so_error
           /\ calls' = Append(calls, Call("poll", poll_ms, out.rc, out.errno, out.revents))
                       \o res.calls
    /\ UNCHANGED <<op, arg, nonblocking, start, r, poll_ms, tv, lastOk, script, rxq>>

\* libc::poll(&mut pollfd, 1, timeout): the kernel waits d, at most the timeout
\* asked for and all of it when it answers 0
Poll(out, d) ==
    /\ pc = "poll"
    /\ Len(Polls(calls)) < MaxPolls
    /\ IF out.rc = 0 THEN d = MsDur(poll_ms) ELSE d \in PollWaits /\ DurLe(d, MsDur(poll_ms))
    /\ PollAnswer(out, d)

\* the timeouts connect_timeout is called with
ConnectTimeouts ==
    { Dur(0, 0), Dur(0, 500000), Dur(0, 2500000), Dur(2147484, 0), DurationMax }

\* what libc::connect may answer on a non-blocking socket
ConnectResults == { "OK", "EINPROGRESS", "ECONNREFUSED", "ETIMEDOUT", "EINTR" }

\* the kernel's default timeval: no timeout
TimevalZero == [tv_sec |-> U64Zero, tv_usec |-> 0]

OptionKinds == { "SO_RCVTIMEO", "SO_SNDTIMEO" }

\* a fresh blocking socket, at some reading of the monotonic clock
Init ==
    /\ pc = "idle"
    /\ op = "new"
    /\ arg = DurZero
    /\ ret = Ok("unit")
    /\ calls = <<>>
    /\ nonblocking = FALSE
    /\ so_error = ""
    /\ now \in { Dur(0, 0), Dur(7, 999800000) }
    /\ start = DurZero
    /\ r = ""
    /\ poll_ms = 0
    /\ tv = [k \in OptionKinds |-> TimevalZero]
    /\ lastOk = [k \in OptionKinds |-> [set |-> FALSE, dur |-> None]]
    /\ script = <<>>
    /\ rxq = 0

Next ==
    \/ \E flag \in BOOLEAN, ok \in BOOLEAN : SetNonblocking(flag, ok)
    \/ \E timeout \in ConnectTimeouts, ok \in BOOLEAN : ConnectBegin(timeout, ok)
    \/ \E res \in ConnectResults : ConnectCall(res)
    \/ \E ok \in BOOLEAN : ConnectRestore(ok)
    \/ DeadlineCheck
    \/ \E out \in PollOutcomes, d \in PollWaits \cup {MsDur(poll_ms)} : Poll(out, d)
    \/ \E ok \in BOOLEAN : TakeError(ok)

Spec == Init /\ [][Next]_vars

---------------------------------------------------------------------------
(* Socket::connect_timeout on a thread that keeps running, with a clock that
   keeps advancing *)

\* how long a poll asked to wait ms milliseconds may have waited when it
\* answers: a positive time, at least half of the wait and at most all of it
LiveWaits(ms) ==
    { d \in PollWaits \cup { MsDur(ms \div 2), MsDur(ms) } :
        /\ DurLt(DurZero, d)
        /\ DurLe(MsDur(ms \div 2), d)
        /\ DurLe(d, MsDur(ms)) }

\* libc::poll(&mut pollfd, 1, timeout) with a timeout of at least 1: a bounded
\* wait, which the kernel ends with an answer. A timeout of 0 or below is not
\* taken for a bounded wait: on some platforms it blocks until the socket is
\* ready, which it need never be.
PollLive(out, d) ==
    /\ pc = "poll"
    /\ poll_ms >= 1
    /\ d \in LiveWaits(poll_ms)
    /\ out.rc = 0 => d = MsDur(poll_ms)
    /\ PollAnswer(out, d)

\* the timeouts whose deadline the clock reaches within the model
LiveTimeouts == ConnectTimeouts \ { DurationMax }

NextLive ==
    \/ \E timeout \in LiveTimeouts, ok \in BOOLEAN : ConnectBegin(timeout, ok)
    \/ \E res \in ConnectResults : ConnectCall(res)
    \/ \E ok \in BOOLEAN : ConnectRestore(ok)
    \/ DeadlineCheck
    \/ \E out \in PollOutcomes :
          \E d \in PollWaits \cup { MsDur(poll_ms \div 2), MsDur(poll_ms) } : PollLive(out, d)

\* the calling thread is never stopped for ever: whatever step of the call is
\* next is taken, every system call returning
SpecLive == Init /\ [][NextLive]_vars /\ WF_vars(NextLive)

---------------------------------------------------------------------------
(* Socket::set_timeout, Socket::timeout *)

\* libc::time_t::MAX, time_t being 64 bits wide
TimeTMax == <<Base \div 2 - 1, Base - 1, Base - 1, Base - 1>>

\* faulty variant: a zero Duration is not rejected
set_timeout_accepts_zero(dur) == FALSE

\* Some(dur) with dur.as_secs() == 0 && dur.subsec_nanos() == 0
set_timeout_rejects(dur) == dur # None /\ is_zero_duration(dur[1])

\* faulty variant: an all-zero timeval is handed down as it is
timeval_of_no_bump(dur) ==
    IF dur = None THEN TimevalZero
    ELSE [tv_sec |-> IF U64Lt(TimeTMax, dur[1].secs) THEN TimeTMax ELSE dur[1].secs,
          tv_usec |-> dur[1].nanos \div 1000]

\* the timeval set_timeout hands to setsockopt: seconds clamped to
\* time_t::MAX, subsec_micros, and tv_usec raised to 1 when both are 0
timeval_of(dur) ==
    IF dur = None THEN TimevalZero
    ELSE LET secs == IF U64Lt(TimeTMax, dur[1].secs) THEN TimeTMax ELSE dur[1].secs
             usec == dur[1].nanos \div 1000
         IN  IF secs = U64Zero /\ usec = 0
             THEN [tv_sec |-> secs, tv_usec |-> 1]
             ELSE [tv_sec |-> secs, tv_usec |-> usec]

\* Duration::new(secs, nanos)
duration_new(secs, nanos) ==
    [secs |-> AddLimbs(secs, U64Of(nanos \div NanosPerSec)).val, nanos |-> nanos % NanosPerSec]

\* what timeout() makes of the timeval read back: (0, 0) is None, else
\* Duration::new(tv_sec as u64, (tv_usec as u32) * 1000)
duration_of(raw) ==
    IF raw.tv_sec = U64Zero /\ raw.tv_usec = 0
    THEN None
    ELSE Some(duration_new(raw.tv_sec, raw.tv_usec * 1000))

\* Socket::set_timeout(dur, kind); ok is the kernel's answer to setsockopt,
\* which stores the timeval when it succeeds
SetTimeout(dur, kind, ok) ==
    /\ pc = "idle"
    /\ op' = "set_timeout"
    /\ arg' = [dur |-> dur, kind |-> kind]
    /\ IF set_timeout_rejects(dur)
       THEN /\ ret' = NewError("InvalidInput")
            /\ calls' = <<>>
            /\ UNCHANGED <<tv, lastOk>>
       ELSE /\ calls' = <<Call("setsockopt", timeval_of(dur), IF ok THEN 0 ELSE -1,
                               IF ok THEN "" ELSE BadFd, "")>>
            /\ IF ok
               THEN /\ ret' = Ok("unit")
                    /\ tv' = [tv EXCEPT ![kind] = timeval_of(dur)]
                    /\ lastOk' = [lastOk EXCEPT ![kind] = [set |-> TRUE, dur |-> dur]]
               ELSE /\ ret' = OsError(BadFd)
                    /\ UNCHANGED <<tv, lastOk>>
    /\ UNCHANGED <<pc, nonblocking, so_error, now, start, r, poll_ms, script, rxq>>

\* Socket::timeout(kind); ok is the kernel's answer to getsockopt
Timeout(kind, ok) ==
    /\ pc = "idle"
    /\ op' = "timeout"
    /\ arg' = [dur |-> None, kind |-> kind]
    /\ calls' = <<Call("getsockopt", tv[kind], IF ok THEN 0 ELSE -1,
                       IF ok THEN "" ELSE BadFd, "")>>
    /\ ret' = IF ok THEN Ok(duration_of(tv[kind])) ELSE OsError(BadFd)
    /\ UNCHANGED <<pc, nonblocking, so_error, now, start, r, poll_ms, tv, lastOk,
                   script, rxq>>

\* the durations set_timeout is called with
OptionDurations ==
    { None, Some(DurZero), Some(Dur(0, 1)), Some(Dur(0, 999)), Some(Dur(0, 1500)),
      Some(Dur(3, 999999999)),
      Some([secs |-> <<Base \div 2, 0, 0, 0>>, nanos |-> 500]),
      Some(DurationMax) }

NextOpt ==
    \/ \E dur \in OptionDurations, kind \in OptionKinds, ok \in BOOLEAN :
          SetTimeout(dur, kind, ok)
    \/ \E kind \in OptionKinds, ok \in BOOLEAN : Timeout(kind, ok)

SpecOpt == Init /\ [][NextOpt]_vars

---------------------------------------------------------------------------
(* Socket::accept, read, peek, recv_from, peek_from *)

\* sys::cvt: -1 becomes the last OS error
cvt(answer, value) == IF answer = "OK" THEN Ok(value) ELSE OsError(answer)

\* the kernel's answer to the next call, and the answers left
NextAnswer(sc) == IF sc = <<>> THEN "OK" ELSE Head(sc)

RestOf(sc) == IF sc = <<>> THEN <<>> ELSE Tail(sc)

\* one call through sys::cvt: the call is made once
cvt_once(sc) == [answer |-> NextAnswer(sc), rest |-> RestOf(sc), answers |-> <<NextAnswer(sc)>>]

\* sys::cvt_r: the call is made again for as long as it fails with Interrupted
RECURSIVE cvt_r(_)
cvt_r(sc) ==
    IF decode_error_kind(NextAnswer(sc)) = "Interrupted"
    THEN LET again == cvt_r(RestOf(sc))
         IN  [again EXCEPT !.answers = <<NextAnswer(sc)>> \o @]
    ELSE cvt_once(sc)

SysCalls(sys, flags, answers) ==
    [i \in 1..Len(answers) |->
        Call(sys, flags, IF answers[i] = "OK" THEN 0 ELSE -1,
             IF answers[i] = "OK" THEN "" ELSE answers[i], "")]

\* the descriptor libc::accept hands out
NewFd == "fd"

\* Socket::accept: cvt_r(libc::accept), then set_cloexec on the new descriptor
Accept(cloexec_ok) ==
    /\ pc = "idle"
    /\ op' = "accept"
    /\ arg' = DurZero
    /\ LET run == cvt_r(script)
       IN  /\ script' = run.rest
           /\ calls' = SysCalls("accept", 0, run.answers)
           /\ ret' = IF run.answer # "OK" THEN cvt(run.answer, NewFd)
                     ELSE IF cloexec_ok THEN Ok(NewFd) ELSE OsError(BadFd)
    /\ UNCHANGED <<pc, nonblocking, so_error, now, start, r, poll_ms, tv, lastOk, rxq>>

Min(a, b) == IF a < b THEN a ELSE b

\* Socket::recv_with_flags: cvt(libc::recv(fd, buf, len, flags)); the kernel
\* hands over what is queued, up to len, and keeps it queued under MSG_PEEK
recv_with_flags(name, len, peek) ==
    /\ pc = "idle"
    /\ op' = name
    /\ arg' = DurZero
    /\ LET run == cvt_once(script)
           n == Min(len, rxq)
       IN  /\ script' = run.rest
           /\ calls' = SysCalls("recv", IF peek THEN 1 ELSE 0, run.answers)
           /\ ret' = cvt(run.answer, n)
           /\ rxq' = IF run.answer = "OK" /\ ~peek THEN rxq - n ELSE rxq
    /\ UNCHANGED <<pc, nonblocking, so_error, now, start, r, poll_ms, tv, lastOk>>

\* Socket::read
Read(len) == recv_with_flags("read", len, FALSE)

\* Socket::peek
Peek(len) == recv_with_flags("peek", len, TRUE)

\* sys_common::net::sockaddr_to_addr
sockaddr_to_addr(family) ==
    IF family \in {"AF_INET", "AF_INET6"} THEN Ok(family) ELSE NewError("InvalidInput")

\* Socket::recv_from_with_flags: cvt(libc::recvfrom(..)), then the source
\* address is decoded from the storage the kernel filled
recv_from_with_flags(name, len, peek, family) ==
    /\ pc = "idle"
    /\ op' = name
    /\ arg' = DurZero
    /\ LET run == cvt_once(script)
           n == Min(len, rxq)
       IN  /\ script' = run.rest
           /\ calls' = SysCalls("recvfrom", IF peek THEN 1 ELSE 0, run.answers)
           /\ ret' = IF run.answer # "OK" THEN cvt(run.answer, n)
                     ELSE IF sockaddr_to_addr(family).tag = "Ok"
                     THEN Ok(<<n, sockaddr_to_addr(family).val>>)
                     ELSE sockaddr_to_addr(family)
           /\ rxq' = IF run.answer = "OK" /\ ~peek THEN rxq - n ELSE rxq
    /\ UNCHANGED <<pc, nonblocking, so_error, now, start, r, poll_ms, tv, lastOk>>

\* Socket::recv_from
RecvFrom(len, family) == recv_from_with_flags("recv_from", len, FALSE, family)

\* Socket::peek_from
PeekFrom(len, family) == recv_from_with_flags("peek_from", len, TRUE, family)

\* what accept/recv/recvfrom may answer
Answers == { "OK", "EINTR", "ECONNRESET" }

Families == { "AF_INET", "AF_INET6", "AF_UNSPEC" }

RECURSIVE Scripts(_)
Scripts(n) ==
    IF n = 0 THEN { <<>> }
    ELSE Scripts(n - 1) \cup { Append(sc, a) : sc \in { x \in Scripts(n - 1) : Len(x) = n - 1 },
                                               a \in Answers }

\* a socket with some bytes queued and the kernel's coming answers fixed
InitIO ==
    /\ pc = "idle"
    /\ op = "new"
    /\ arg = DurZero
    /\ ret = Ok("unit")
    /\ calls = <<>>
    /\ nonblocking = FALSE
    /\ so_error = ""
    /\ now = DurZero
    /\ start = DurZero
    /\ r = ""
    /\ poll_ms = 0
    /\ tv = [k \in OptionKinds |-> TimevalZero]
    /\ lastOk = [k \in OptionKinds |-> [set |-> FALSE, dur |-> None]]
    /\ script \in Scripts(MaxScript)
    /\ rxq \in 0..MaxBytes

NextIO ==
    \/ \E cloexec_ok \in BOOLEAN : Accept(cloexec_ok)
    \/ \E len \in 0..MaxBuf : Read(len)
    \/ \E len \in 0..MaxBuf : Peek(len)
    \/ \E len \in 0..MaxBuf, family \in Families : RecvFrom(len, family)
    \/ \E len \in 0..MaxBuf, family \in Families : PeekFrom(len, family)

SpecIO == InitIO /\ [][NextIO]_vars

---------------------------------------------------------------------------
(* Properties of Socket::connect_timeout *)

\* connect_timeout has returned and nothing was called since
Returned == op = "connect_timeout" /\ pc = "done"

LastCall == calls[Len(calls)]

LastPoll == Polls(calls)[Len(Polls(calls))]

TimedOutError == NewError("TimedOut")

\* libc::connect failed with something other than EINPROGRESS
HardConnectFailure == r \notin {"", "OK", "EINPROGRESS"}

\* C1: connect_timeout with a zero timeout issues no system call at all and
\* returns InvalidInput.
C1_ZeroTimeoutIsRejectedWithoutIO ==
    (op = "connect_timeout" /\ is_zero_duration(arg))
        => /\ calls = <<>>
           /\ pc = "done" => ret = NewError("InvalidInput")

\* C2: when connect_timeout with a non-zero timeout returns Ok or the
\* timed-out error, the descriptor is in blocking mode.
C2_BlockingModeOnReturn ==
    (/\ Returned
     /\ ~is_zero_duration(arg)
     /\ ret.tag = "Ok" \/ ret = TimedOutError)
        => nonblocking = FALSE

\* a call that switched the descriptor to non-blocking, went through the
\* poll loop and returned Ok with the descriptor blocking again
C2_Witness ==
    /\ Returned
    /\ ~is_zero_duration(arg)
    /\ ret.tag = "Ok"
    /\ Len(Polls(calls)) > 0
    /\ calls[1].sys = "fcntl" /\ calls[1].arg = 1
    /\ nonblocking = FALSE

\* every poll of the call answered 0 or was interrupted
NeverReady ==
    \A i \in 1..Len(calls) :
        calls[i].sys = "poll" =>
            calls[i].rc = 0 \/ (calls[i].rc = -1 /\ calls[i].errno = "EINTR")

\* C3: with a non-zero timeout T, a connect that stays in progress and polls
\* that never report readiness, connect_timeout returns TimedOut, and when it
\* returns TimedOut the time elapsed since `start` is at least T and at most T
\* plus the wait asked of the last poll.
C3_TimedOutWithinOnePollOfDeadline ==
    /\ (/\ Returned
        /\ ~is_zero_duration(arg)
        /\ r = "EINPROGRESS"
        /\ calls[3].rc = 0
        /\ NeverReady) => ret = TimedOutError
    /\ (Returned /\ ret = TimedOutError)
          => /\ Len(Polls(calls)) >= 1
             /\ DurLe(arg, Elapsed)
             /\ DurLe(Elapsed, DurAdd(arg, MsDur(LastPoll.arg)))

\* a timed-out return strictly after the deadline, after several polls
C3_Witness ==
    /\ Returned
    /\ ret = TimedOutError
    /\ Len(Polls(calls)) >= 2
    /\ DurLt(arg, Elapsed)

\* C7 as stated: after a hard failure of libc::connect, connect_timeout has
\* restored blocking mode and returns exactly the error of connect, and has
\* not polled.
C7_HardFailureReturnsConnectError ==
    (Returned /\ HardConnectFailure)
        => /\ ret = OsError(r)
           /\ nonblocking = FALSE
           /\ Polls(calls) = <<>>

\* C7, amended: after a hard failure of libc::connect no poll is ever made;
\* when the set_nonblocking(false) that follows succeeds the descriptor is
\* blocking and the error of connect is returned, and when it fails its own
\* error is returned instead. Only EINPROGRESS enters the poll loop.
C7_HardFailureReturnsConnectErrorUnlessRestoreFails ==
    /\ (Returned /\ HardConnectFailure)
          => /\ Polls(calls) = <<>>
             /\ Len(calls) = 3
             /\ calls[3].rc = 0 => ret = OsError(r) /\ nonblocking = FALSE
             /\ calls[3].rc = -1 => ret = OsError(calls[3].errno)
    /\ (op = "connect_timeout" /\ (pc \in {"check", "poll"} \/ Polls(calls) # <<>>))
          => r = "EINPROGRESS"

\* connect was refused at once, the mode was restored, the error returned
C7_Witness ==
    /\ Returned
    /\ r = "ECONNREFUSED"
    /\ calls[3].rc = 0
    /\ ret = OsError("ECONNREFUSED")
    /\ nonblocking = FALSE
    /\ Polls(calls) = <<>>

\* C8: a poll that answers 0 or fails with EINTR leaves the call pending and
\* hands control to the deadline check, which alone decides whether to poll
\* again; a poll that fails with another error ends the call with that error.
C8_InterruptedPollIsRetried ==
    [][ /\ (op = "connect_timeout" /\ pc = "poll" /\ calls' # calls)
            => LET c == calls'[Len(calls')]
               IN  /\ c.sys = "poll"
                   /\ (c.rc = 0 \/ (c.rc = -1 /\ c.errno = "EINTR"))
                         => pc' = "check" /\ ret' = Pending
                   /\ (c.rc = -1 /\ c.errno # "EINTR")
                         => pc' = "done" /\ ret' = OsError(c.errno)
        /\ (op = "connect_timeout" /\ pc = "check")
            => /\ calls' = calls
               /\ IF DurLe(arg, Elapsed)
                  THEN pc' = "done" /\ ret' = TimedOutError
                  ELSE pc' = "poll" /\ ret' = Pending
        /\ (op' = "connect_timeout" /\ pc' = "done" /\ ret'.tag = "Err"
              /\ ret'.kind = "Interrupted")
            => Polls(calls') = <<>>
      ]_vars

\* a poll was interrupted and the loop polled again
C8_Witness ==
    /\ op = "connect_timeout"
    /\ Len(Polls(calls)) >= 2
    /\ Polls(calls)[1].rc = -1
    /\ Polls(calls)[1].errno = "EINTR"

\* the wait a poll is asked for, from the time that remains
ExpectedPollMs(rem, ms) ==
    /\ DurLt(rem, MsDur(1)) => ms = 1
    /\ DurLt(MsDur(CIntMax), rem) => ms = CIntMax
    /\ (~DurLt(rem, MsDur(1)) /\ ~DurLt(MsDur(CIntMax), rem))
          => /\ DurLe(MsDur(ms), rem)
             /\ DurLt(DurSub(rem, MsDur(ms)), MsDur(1))

\* C9: every poll is asked to wait between 1 and c_int::MAX milliseconds and
\* is issued while the elapsed time is below the timeout; a remainder below a
\* millisecond asks for 1, a remainder above c_int::MAX asks for c_int::MAX.
C9_PollTimeoutWithinRange ==
    /\ (op = "connect_timeout" /\ pc = "poll")
          => /\ DurLt(Elapsed, arg)
             /\ poll_ms >= 1 /\ poll_ms <= CIntMax
             /\ ExpectedPollMs(DurSub(arg, Elapsed), poll_ms)
    /\ op = "connect_timeout"
          => \A i \in 1..Len(calls) :
                calls[i].sys = "poll"
                   => /\ calls[i].arg >= 1 /\ calls[i].arg <= CIntMax
                      /\ DurLt(DurSub(calls[i].at, start), arg)
                      /\ ExpectedPollMs(DurSub(arg, DurSub(calls[i].at, start)), calls[i].arg)

\* a poll is about to be made with less than a millisecond left, after an
\* earlier poll that was clamped or not
C9_Witness ==
    /\ op = "connect_timeout"
    /\ pc = "poll"
    /\ Len(Polls(calls)) >= 1
    /\ DurLt(DurSub(arg, Elapsed), MsDur(1))
    /\ poll_ms = 1

\* connect_timeout has returned and its last poll reported readiness
ReturnedFromReadyPoll ==
    /\ Returned
    /\ Polls(calls) # <<>>
    /\ LastPoll.rc > 0

---------------------------------------------------------------------------
(* Properties of the receive/accept wrappers and of the timeout options *)

RetrySafeOps == { "accept", "read", "peek", "recv_from", "peek_from" }

\* C4: accept, read, peek, recv_from and peek_from never return Interrupted:
\* a system call that answers EINTR is issued again, and when it then
\* succeeds the caller gets the successful result.
C4_InterruptedSyscallIsRetried ==
    (op \in RetrySafeOps)
        => /\ ~(ret.tag = "Err" /\ ret.kind = "Interrupted")
           /\ \A i \in 1..Len(calls) : calls[i].errno = "EINTR" => i < Len(calls)

\* d truncated to whole microseconds, its seconds clamped to time_t::MAX,
\* and 1 microsecond when that leaves nothing
TruncatedToMicros(d) ==
    LET secs == IF U64Lt(TimeTMax, d.secs) THEN TimeTMax ELSE d.secs
        nanos == d.nanos - (d.nanos % 1000)
    IN  IF secs = U64Zero /\ nanos = 0 THEN Dur(0, 1000)
        ELSE [secs |-> secs, nanos |-> nanos]

\* C5: timeout(k) after a successful set_timeout(Some(d), k), d > 0, returns
\* Some(d') with d' > 0: d truncated to whole microseconds, 1 microsecond
\* for a d below one, seconds clamped to time_t::MAX; and the timeval handed
\* to setsockopt for Some(d) is never (0, 0).
C5_TimeoutRoundTrip ==
    /\ (/\ op = "timeout"
        /\ ret.tag = "Ok"
        /\ lastOk[arg.kind].set
        /\ lastOk[arg.kind].dur # None)
          => /\ ret.val = Some(TruncatedToMicros(lastOk[arg.kind].dur[1]))
             /\ ret.val # None
             /\ DurLt(DurZero, ret.val[1])
    /\ (op = "set_timeout" /\ arg.dur # None /\ calls # <<>>)
          => calls[1].arg # TimevalZero

\* a timeout below one microsecond was stored and read back as 1 microsecond
C5_Witness ==
    /\ op = "timeout"
    /\ lastOk[arg.kind] = [set |-> TRUE, dur |-> Some(Dur(0, 999))]
    /\ ret = Ok(Some(Dur(0, 1000)))

\* C6: timeout(k) returns None exactly when the latest set_timeout on k that
\* returned Ok passed None; set_timeout(Some(zero), k) returns InvalidInput,
\* issues no setsockopt and leaves the stored timeouts as they were.
C6_TimeoutReflectsLastSuccessfulSet ==
    [][ /\ (op' = "timeout" /\ ret'.tag = "Ok" /\ lastOk[arg'.kind].set)
            => (ret'.val = None <=> lastOk[arg'.kind].dur = None)
        /\ (op' = "set_timeout" /\ arg'.dur = Some(DurZero))
            => /\ ret' = NewError("InvalidInput")
               /\ calls' = <<>>
               /\ tv' = tv
        /\ (op' = "set_timeout" /\ ret'.tag = "Err") => tv' = tv
      ]_vars

\* a zero timeout was refused while a timeout was stored, which is still there
C6_Witness ==
    /\ op = "set_timeout"
    /\ arg.dur = Some(DurZero)
    /\ ret = NewError("InvalidInput")
    /\ lastOk[arg.kind].set
    /\ lastOk[arg.kind].dur # None
    /\ tv[arg.kind] = timeval_of(lastOk[arg.kind].dur)
    /\ tv[arg.kind] # TimevalZero

---------------------------------------------------------------------------
(* Termination of Socket::connect_timeout *)

\* C11: connect_timeout returns, whatever the polls answer, when the clock
\* keeps advancing: a call that has begun eventually is done.
C11_ConnectTimeoutReturns == (op = "connect_timeout") ~> (pc = "done")

\* a call that went round the loop at least three times, the first poll
\* clamped to c_int::MAX, and returned at its deadline
C11_Witness ==
    /\ Returned
    /\ ret = TimedOutError
    /\ Len(Polls(calls)) >= 3
    /\ Polls(calls)[1].arg = CIntMax

====
